---- MODULE Spec2Model ----
(***************************************************************************)
(* Model of scraper.py: the yahrtzeit forum scraper.                       *)
(*                                                                         *)
(* A string is a sequence of characters; a character is written by its     *)
(* name ("alef", "bet", ... for the Hebrew letters, "nun_f"/"mem_f" for    *)
(* the final forms, "sp" space, "tab", "apos" ', "dq" ", "bslash" \,       *)
(* "qm" ?, "lp" (, "rp" ), "qamats" and "shin_dot" for two combining       *)
(* points, "shin_with_dot" for the precomposed letter U+FB2A).             *)
(* numeral and value are the argument and the result of a call of          *)
(* hebrew_to_int taken by itself (SpecDecode); the scanner's own calls are *)
(* part of its step.                                                       *)
(* Python's None is the integer -1, which no day, month or preference      *)
(* takes.  A dict is a function whose DOMAIN is its key set.               *)
(***************************************************************************)
EXTENDS Integers, Sequences, FiniteSets, TLC

VARIABLES pc, post, block, idx, nline, line, current_day, current_month,
          default_pref, local_yahrtzeits, log, results, returned,
          main_pc, result_i, data, output, numeral, value

vars == <<pc, post, block, idx, nline, line, current_day, current_month,
          default_pref, local_yahrtzeits, log, results, returned,
          main_pc, result_i, data, output, numeral, value>>

-----------------------------------------------------------------------------
(* Bounds *)

\* the number of pages fetched (the program fetches range(0, 300, 25))
NumUnits == 2
\* posts per page, blocks per post
MaxPosts == 2
MaxBlocks == 2
\* lines scanned over all pages, under Spec and under SpecScan
MaxLines == 4
MaxScanLines == 3
\* records a unit returns under one key, under SpecAgg
MaxAggLen == 2
\* lines scanned over all pages, under SpecFair
MaxFairLines == 2
\* characters of a numeral token, under SpecDecode
MaxTokenLen == 3

Units == 1..NumUnits

None == -1

Min(a, b) == IF a < b THEN a ELSE b

-----------------------------------------------------------------------------
(* Python string primitives *)

\* str.startswith
StartsWith(s, p) == Len(p) <= Len(s) /\ SubSeq(s, 1, Len(p)) = p

\* the `in` operator on strings
Contains(s, p) == \E i \in 0..(Len(s) - Len(p)) : SubSeq(s, i + 1, i + Len(p)) = p

Whitespace == {"sp", "tab"}

RECURSIVE LStrip(_)
LStrip(s) == IF s # <<>> /\ Head(s) \in Whitespace THEN LStrip(Tail(s)) ELSE s

RECURSIVE RStrip(_)
RStrip(s) ==
  IF s # <<>> /\ s[Len(s)] \in Whitespace THEN RStrip(SubSeq(s, 1, Len(s) - 1)) ELSE s

\* str.strip()
Strip(s) == RStrip(LStrip(s))

\* str.replace(old, new): left to right, non-overlapping, every occurrence
RECURSIVE Replace(_, _, _)
Replace(s, old, new) ==
  IF s = <<>> THEN <<>>
  ELSE IF StartsWith(s, old)
       THEN new \o Replace(SubSeq(s, Len(old) + 1, Len(s)), old, new)
       ELSE <<Head(s)>> \o Replace(Tail(s), old, new)

\* str.split(sep) for a one-character separator: the list of parts
RECURSIVE Split(_, _)
Split(s, sep) ==
  IF \E i \in 1..Len(s) : s[i] = sep
  THEN LET i == CHOOSE j \in 1..Len(s) : s[j] = sep /\ \A k \in 1..(j - 1) : s[k] # sep
       IN  <<SubSeq(s, 1, i - 1)>> \o Split(SubSeq(s, i + 1, Len(s)), sep)
  ELSE <<s>>

-----------------------------------------------------------------------------
(* remove_nikud *)

\* unicodedata.normalize('NFD', .) on one character
NFD(c) == IF c = "shin_with_dot" THEN <<"shin", "shin_dot">> ELSE <<c>>

\* the characters whose unicodedata.category is 'Mn'
Mn == {"qamats", "shin_dot"}

RECURSIVE Normalize(_)
Normalize(s) == IF s = <<>> THEN <<>> ELSE NFD(Head(s)) \o Normalize(Tail(s))

remove_nikud(text) == SelectSeq(Normalize(text), LAMBDA c : c \notin Mn)

-----------------------------------------------------------------------------
(* hebrew_to_int *)

letters ==
  [alef |-> 1, bet |-> 2, gimel |-> 3, dalet |-> 4, he |-> 5, vav |-> 6,
   zayin |-> 7, het |-> 8, tet |-> 9, yod |-> 10, kaf |-> 20, lamed |-> 30,
   mem |-> 40, nun |-> 50, samekh |-> 60, ayin |-> 70, pe |-> 80,
   tsadi |-> 90, qof |-> 100, resh |-> 200, shin |-> 300, tav |-> 400]

\* letters.get(letter, 0)
LetterValue(c) == IF c \in DOMAIN letters THEN letters[c] ELSE 0

\* `value = letters.get(letter, 0)`: the last letter's value, not the sum
SumLettersLast(s) == IF s = <<>> THEN 0 ELSE LetterValue(s[Len(s)])

RECURSIVE SumLetters(_)
SumLetters(s) == IF s = <<>> THEN 0 ELSE LetterValue(Head(s)) + SumLetters(Tail(s))

hebrew_to_int(hebrew) ==
  IF hebrew = <<>> THEN 0
  ELSE SumLetters(Replace(Replace(hebrew, <<"apos">>, <<>>), <<"dq">>, <<>>))

-----------------------------------------------------------------------------
(* month_map, in the order of the dict literal *)

Nisan      == <<"nun", "yod", "samekh", "nun_f">>
Iyar       == <<"alef", "yod", "yod", "resh">>
Sivan      == <<"samekh", "yod", "vav", "nun_f">>
Tamuz      == <<"tav", "mem", "vav", "zayin">>
Av         == <<"alef", "bet">>
MenachemAv == <<"mem", "nun", "het", "mem_f", "sp", "alef", "bet">>
MenaQuoted == <<"mem", "nun", "dq", "alef">>
Elul       == <<"alef", "lamed", "vav", "lamed">>
Tishrei    == <<"tav", "shin", "resh", "yod">>
Cheshvan   == <<"het", "shin", "vav", "nun_f">>
Marcheshvan == <<"mem", "resh", "het", "shin", "vav", "nun_f">>
Kislev     == <<"kaf", "samekh", "lamed", "vav">>
Tevet      == <<"tet", "bet", "tav">>
Shevat     == <<"shin", "bet", "tet">>
Adar       == <<"alef", "dalet", "resh">>
AdarAlef   == <<"alef", "dalet", "resh", "sp", "alef", "apos">>
AdarBet    == <<"alef", "dalet", "resh", "sp", "bet", "apos">>

month_map ==
  << [name |-> Nisan, num |-> 1], [name |-> Iyar, num |-> 2],
     [name |-> Sivan, num |-> 3], [name |-> Tamuz, num |-> 4],
     [name |-> Av, num |-> 5], [name |-> MenachemAv, num |-> 5],
     [name |-> MenaQuoted, num |-> 5], [name |-> Elul, num |-> 6],
     [name |-> Tishrei, num |-> 7], [name |-> Cheshvan, num |-> 8],
     [name |-> Marcheshvan, num |-> 8], [name |-> Kislev, num |-> 9],
     [name |-> Tevet, num |-> 10], [name |-> Shevat, num |-> 11],
     [name |-> Adar, num |-> 12], [name |-> AdarAlef, num |-> 12],
     [name |-> AdarBet, num |-> 13] >>

\* month_map.get(month_text)
MonthGet(month_text) ==
  IF \E i \in DOMAIN month_map : month_map[i].name = month_text
  THEN month_map[CHOOSE i \in DOMAIN month_map : month_map[i].name = month_text].num
  ELSE None

\* sorted(month_map.keys(), key=len, reverse=True): a stable sort, so keys of
\* one length keep the order of the dict
RECURSIVE InsertByLen(_, _)
InsertByLen(sorted, k) ==
  IF sorted = <<>> THEN <<k>>
  ELSE IF Len(Head(sorted)) >= Len(k)
       THEN <<Head(sorted)>> \o InsertByLen(Tail(sorted), k)
       ELSE <<k>> \o sorted

RECURSIVE SortedByLen(_)
SortedByLen(keys) ==
  IF keys = <<>> THEN <<>>
  ELSE InsertByLen(SortedByLen(SubSeq(keys, 1, Len(keys) - 1)), keys[Len(keys)])

SortedMonthKeys == SortedByLen([i \in DOMAIN month_map |-> month_map[i].name])

\* next((m for m in month_map if m in line), None): the first key of the
\* dict that occurs, whatever its length
MonthTextFirstKey(ln) ==
  IF \E i \in DOMAIN month_map : Contains(ln, month_map[i].name)
  THEN month_map[CHOOSE i \in DOMAIN month_map :
                   /\ Contains(ln, month_map[i].name)
                   /\ \A j \in 1..(i - 1) : ~Contains(ln, month_map[j].name)].name
  ELSE <<>>

\* next((m for m in sorted(...) if m in line), None); None is the empty string
\* here, which is not a key and is falsy like None
MonthText(ln) ==
  IF \E i \in DOMAIN SortedMonthKeys : Contains(ln, SortedMonthKeys[i])
  THEN SortedMonthKeys[CHOOSE i \in DOMAIN SortedMonthKeys :
                         /\ Contains(ln, SortedMonthKeys[i])
                         /\ \A j \in 1..(i - 1) : ~Contains(ln, SortedMonthKeys[j])]
  ELSE <<>>

-----------------------------------------------------------------------------
(* The Block Scanner of fetch_forum_page: one line of one block *)

\* the letters of 'אבגדהוזחטיכל'
NumeralLetters ==
  {"alef", "bet", "gimel", "dalet", "he", "vav", "zayin", "het", "tet", "yod",
   "kaf", "lamed"}

Rabi      == <<"resh", "bet", "yod">>
Yissachar == <<"yod", "shin", "shin", "kaf", "resh">>
HaSar     == <<"he", "shin", "resh">>
Shimon    == <<"shin", "mem", "ayin", "vav", "nun_f">>
Moshe     == <<"mem", "shin", "he">>
Rabeinu   == <<"resh", "bet", "yod", "nun", "vav">>
SP        == <<"sp">>
QQ        == <<"qm", "qm">>
MarkAlef  == <<"lp", "alef", "rp">>
MarkBet   == <<"lp", "bet", "rp">>
UVno      == <<"vav", "bet", "nun", "vav">>
VeChatno  == <<"vav", "het", "tav", "nun", "vav">>

\* the prefixes tested by the name-attribution branch
NamePrefixes ==
  { Rabi \o SP, Yissachar \o SP, HaSar \o SP, Shimon \o SP, QQ \o Rabi \o SP,
    <<"qm">> \o Rabi \o SP, Moshe \o SP, Rabeinu \o SP }

\* line.replace('\\', '').replace('\'', '')
CleanLine(ln) == Replace(Replace(ln, <<"bslash">>, <<>>), <<"apos">>, <<>>)

\* `current_day is not None` in place of the truth value
IsNotNone(x) == x # None

\* truth value of an optional integer
Truthy(x) == x # None /\ x # 0

\* the header test without `not line.startswith('רבי ')`
HeaderTestWithoutExclusion(ln) ==
  /\ ln # <<>>
  /\ \E i \in 1..Min(2, Len(ln)) : ln[i] \in NumeralLetters
  /\ \E i \in DOMAIN month_map : Contains(ln, month_map[i].name)

\* the condition of the `if`: a date header
HeaderTest(ln) ==
  /\ ln # <<>>
  /\ \E i \in 1..Min(2, Len(ln)) : ln[i] \in NumeralLetters
  /\ \E i \in DOMAIN month_map : Contains(ln, month_map[i].name)
  /\ ~StartsWith(ln, Rabi \o SP)

\* current_month in [12, 13] -> 12
CanonMonth(m) == IF m \in {12, 13} THEN 12 ELSE m

\* the bare alias is taken for the first half
AdarPrefBareIsFirst(m, month_text) ==
  IF m \in {12, 13}
  THEN IF month_text = AdarBet THEN 2 ELSE 1
  ELSE None

\* default_pref chosen from the matched alias
AdarPref(m, month_text) ==
  IF m \in {12, 13}
  THEN IF month_text = AdarAlef THEN 1
       ELSE IF month_text = AdarBet THEN 2 ELSE None
  ELSE None

\* body of the header branch: the new (current_day, current_month, default_pref)
HeaderUpdate(day, month, pref, ln) ==
  LET parts      == Split(ln, "sp")
      day_text   == parts[1]
      month_text == MonthText(ln)
      m          == MonthGet(month_text)
  IN  IF month_text = <<>>
      THEN [day |-> None, month |-> month, pref |-> pref]
      ELSE IF m = None
      THEN [day |-> None, month |-> None, pref |-> pref]
      ELSE [day   |-> hebrew_to_int(day_text),
            month |-> CanonMonth(m),
            pref  |-> AdarPref(m, month_text)]

\* the prefix test is left out: every line under a date is an attribution
NameTestAnyLine(day, ln) == Truthy(day)

\* the condition of the first `elif`: a name attribution
NameTest(day, ln) == Truthy(day) /\ \E p \in NamePrefixes : StartsWith(ln, p)

\* line.replace('??', '')
StripQuestionMarks(ln) == Replace(ln, QQ, <<>>)

\* body of the name branch: the entry appended
NameEntry(pref, ln) ==
  LET l1 == StripQuestionMarks(ln)
  IN  IF StartsWith(l1, MarkAlef)
      THEN [text |-> remove_nikud(Strip(SubSeq(l1, 4, Len(l1)))), adar_pref |-> 1]
      ELSE IF StartsWith(l1, MarkBet)
      THEN [text |-> remove_nikud(Strip(SubSeq(l1, 4, Len(l1)))), adar_pref |-> 2]
      ELSE [text |-> remove_nikud(l1), adar_pref |-> pref]

EmptyDict == <<>>

\* d[key] = [entry]: the list is replaced, not extended
AddEntryOverwrite(d, key, entry) ==
  [k \in DOMAIN d \cup {key} |-> IF k = key THEN <<entry>> ELSE d[k]]

\* if key not in d: d[key] = []; d[key].append(entry)
AddEntry(d, key, entry) ==
  [k \in DOMAIN d \cup {key} |->
     IF k = key THEN (IF k \in DOMAIN d THEN Append(d[k], entry) ELSE <<entry>>)
     ELSE d[k]]

\* the condition of the last `elif`
ConnectorTest(ln) == ln \in {UVno, VeChatno}

-----------------------------------------------------------------------------
(* Inputs: the raw lines a post's blocks may hold, the kinds of post, the   *)
(* response status codes                                                    *)

David   == <<"dalet", "vav", "dalet">>
Avraham == <<"alef", "bet", "resh", "he", "mem_f">>

RawLines ==
  { SP \o <<"kaf">> \o SP \o Tishrei,                    \* " כ תשרי"
    <<"kaf", "apos">> \o SP \o AdarAlef,                  \* "כ' אדר א'"
    <<"yod", "dq", "zayin">> \o SP \o AdarBet,            \* "י"ז אדר ב'"
    Elul,                                                 \* "אלול"
    <<"apos">> \o SP \o <<"kaf">> \o SP \o Tishrei,       \* "' כ תשרי"
    <<"kaf", "tab">> \o Tishrei,                          \* "כ<TAB>תשרי"
    <<"tet">> \o SP \o Shevat \o SP \o Avraham,           \* "ט שבט אברהם"
    HaSar \o SP \o Avraham,                               \* "השר אברהם"
    Rabi \o SP \o <<"dalet", "qamats", "vav", "dalet">>,  \* "רבי דָוד"
    QQ \o Rabi \o SP \o David,                            \* "??רבי דוד"
    Rabi \o SP \o Avraham,                                \* "רבי אברהם"
    Rabi \o SP \o MarkBet \o SP \o David,                 \* "רבי (ב) דוד"
    MarkBet \o SP \o Rabi \o SP \o David,                 \* "(ב) רבי דוד"
    Moshe \o SP \o QQ \o <<"shin_with_dot">>,             \* "משה ??שׁ"
    UVno,                                                 \* "ובנו"
    <<"zayin", "tsadi", "lamed">>,                        \* "זצל"
    <<"tab">> }                                           \* whitespace only

\* the lines of the pages of Spec
PageLines ==
  { SP \o <<"kaf">> \o SP \o Tishrei,
    Rabi \o SP \o <<"dalet", "qamats", "vav", "dalet">>,
    Rabi \o SP \o Avraham }

\* a post of the designated author (or without a profile), a post of another
\* author, a post whose postbody has no content div, a post without postbody
PostKinds == {"designated", "other_author", "no_content", "no_postbody"}

StatusCodes == {200, 404}

-----------------------------------------------------------------------------
(* fetch_forum_page: one coroutine per unit.  pc is the await or loop the    *)
(* coroutine is at: "get" (awaiting session.get), "text" (awaiting           *)
(* response.text()), "posts" (the `for post` loop), "lines" (the loops over  *)
(* a post's blocks and lines), "returned".  A coroutine yields only at an    *)
(* await, so no other coroutine moves while one is in "posts" or "lines".    *)

Scanning == \E v \in Units : pc[v] \in {"posts", "lines"}

LinesRead == LET RECURSIVE Sum(_)
                 Sum(n) == IF n = 0 THEN 0 ELSE nline[n] + Sum(n - 1)
             IN  Sum(NumUnits)

\* the results in the order the tasks complete
GatherAsCompleted(res, u, r) == [res EXCEPT ![Len(returned) + 1] = r]

\* asyncio.gather keeps the results in the order of the tasks
GatherStore(res, u, r) == [res EXCEPT ![u] = r]

\* `return {}`: what the unit had accumulated is dropped
ReturnEmpty(u) ==
  /\ pc' = [pc EXCEPT ![u] = "returned"]
  /\ results' = GatherStore(results, u, EmptyDict)
  /\ returned' = Append(returned, u)
  /\ post' = [post EXCEPT ![u] = 0]
  /\ block' = [block EXCEPT ![u] = 0]
  /\ idx' = [idx EXCEPT ![u] = 0]
  /\ line' = [line EXCEPT ![u] = <<>>]
  /\ current_day' = [current_day EXCEPT ![u] = None]
  /\ current_month' = [current_month EXCEPT ![u] = None]
  /\ default_pref' = [default_pref EXCEPT ![u] = None]

\* `return local_yahrtzeits`: the frame is dropped, gather receives the value
Return(u) ==
  /\ pc' = [pc EXCEPT ![u] = "returned"]
  /\ results' = GatherStore(results, u, local_yahrtzeits[u])
  /\ returned' = Append(returned, u)
  /\ post' = [post EXCEPT ![u] = 0]
  /\ block' = [block EXCEPT ![u] = 0]
  /\ idx' = [idx EXCEPT ![u] = 0]
  /\ line' = [line EXCEPT ![u] = <<>>]
  /\ current_day' = [current_day EXCEPT ![u] = None]
  /\ current_month' = [current_month EXCEPT ![u] = None]
  /\ default_pref' = [default_pref EXCEPT ![u] = None]

\* session.get answers with a status
Response(u, st) ==
  /\ pc[u] = "get"
  /\ UNCHANGED <<numeral, value>>
  /\ ~Scanning
  /\ IF st # 200
     THEN /\ log' = [log EXCEPT ![u] = "warning"]
          /\ Return(u)
     ELSE /\ pc' = [pc EXCEPT ![u] = "text"]
          /\ UNCHANGED <<log, results, returned, post, block, idx, line,
                         current_day, current_month, default_pref>>
  /\ UNCHANGED <<nline, local_yahrtzeits, main_pc, result_i, data, output>>

\* no try/except around the fetch: the exception leaves the coroutine and
\* gather re-raises it in main, which ends before the aggregation
FetchErrorPropagates(u) ==
  /\ pc[u] \in {"get", "text"}
  /\ ~Scanning
  /\ log' = [log EXCEPT ![u] = "error"]
  /\ pc' = [pc EXCEPT ![u] = "raised"]
  /\ main_pc' = "raised"
  /\ UNCHANGED <<post, block, idx, nline, line, current_day, current_month,
                 default_pref, local_yahrtzeits, results, returned,
                 result_i, data, output, numeral, value>>

\* session.get or response.text() raises (timeout, connection error)
FetchError(u) ==
  /\ pc[u] \in {"get", "text"}
  /\ UNCHANGED <<numeral, value>>
  /\ ~Scanning
  /\ log' = [log EXCEPT ![u] = "error"]
  /\ Return(u)
  /\ UNCHANGED <<nline, local_yahrtzeits, main_pc, result_i, data, output>>

\* response.text() delivers the page; BeautifulSoup finds the posts
ReadText(u) ==
  /\ pc[u] = "text"
  /\ UNCHANGED <<numeral, value>>
  /\ ~Scanning
  /\ pc' = [pc EXCEPT ![u] = "posts"]
  /\ UNCHANGED <<post, block, idx, nline, line, current_day, current_month,
                 default_pref, local_yahrtzeits, log, results, returned,
                 main_pc, result_i, data, output>>

\* the scan state is initialised before the loop over the posts only
KeepScanState(day, month, pref) == [day |-> day, month |-> month, pref |-> pref]

\* the reset of current_day is left out
ForgetDayReset(day, month, pref) == [day |-> day, month |-> None, pref |-> None]

\* current_day = None; current_month = None; default_pref = None, whatever
\* the previous post left in them
PostStartState(day, month, pref) == [day |-> None, month |-> None, pref |-> None]

\* one iteration of `for post in posts` up to the loop over its blocks
NextPost(u, kind) ==
  /\ pc[u] = "posts"
  /\ UNCHANGED <<numeral, value>>
  /\ post[u] < MaxPosts
  /\ UNCHANGED <<nline, local_yahrtzeits, main_pc, result_i, data, output>>
  /\ CASE kind = "no_postbody" ->
            /\ log' = [log EXCEPT ![u] = "error"]
            /\ Return(u)
       [] kind \in {"other_author", "no_content"} ->
            /\ post' = [post EXCEPT ![u] = @ + 1]
            /\ UNCHANGED <<pc, block, idx, line, current_day, current_month,
                           default_pref, log, results, returned>>
       [] kind = "designated" ->
            LET st == PostStartState(current_day[u], current_month[u],
                                     default_pref[u])
            IN  /\ post' = [post EXCEPT ![u] = @ + 1]
                /\ current_day' = [current_day EXCEPT ![u] = st.day]
                /\ current_month' = [current_month EXCEPT ![u] = st.month]
                /\ default_pref' = [default_pref EXCEPT ![u] = st.pref]
                /\ block' = [block EXCEPT ![u] = 1]
                /\ idx' = [idx EXCEPT ![u] = 0]
                /\ pc' = [pc EXCEPT ![u] = "lines"]
                /\ UNCHANGED <<line, log, results, returned>>

\* `for block in content` moves to the next block of the post
NextBlock(u) ==
  /\ pc[u] = "lines"
  /\ UNCHANGED <<numeral, value>>
  /\ block[u] < MaxBlocks
  /\ block' = [block EXCEPT ![u] = @ + 1]
  /\ idx' = [idx EXCEPT ![u] = 0]
  /\ UNCHANGED <<pc, post, nline, line, current_day, current_month,
                 default_pref, local_yahrtzeits, log, results, returned,
                 main_pc, result_i, data, output>>

\* one raw line of the current block: the filter and strip that build
\* block_lines (a line that strips to nothing is dropped), then one iteration
\* of `for i, line in enumerate(block_lines)`.  idx counts the lines taken from
\* the block, nline those taken from the page; line is the value line 74 gives.
\* limit bounds the lines scanned over all pages
ScanLine(u, raw, limit) ==
  /\ pc[u] = "lines"
  /\ UNCHANGED <<numeral, value>>
  /\ LinesRead < limit
  /\ UNCHANGED <<pc, post, block, log, results, returned, main_pc, result_i,
                 data, output>>
  /\ IF Strip(raw) = <<>>
     THEN UNCHANGED <<idx, nline, line, current_day, current_month, default_pref,
                      local_yahrtzeits>>
     ELSE LET ln == CleanLine(Strip(raw))
          IN  /\ idx' = [idx EXCEPT ![u] = @ + 1]
              /\ nline' = [nline EXCEPT ![u] = @ + 1]
              /\ line' = [line EXCEPT ![u] = ln]
              /\ IF HeaderTest(ln)
                 THEN LET h == HeaderUpdate(current_day[u], current_month[u],
                                            default_pref[u], ln)
                      IN  /\ current_day' = [current_day EXCEPT ![u] = h.day]
                          /\ current_month' = [current_month EXCEPT ![u] = h.month]
                          /\ default_pref' = [default_pref EXCEPT ![u] = h.pref]
                          /\ UNCHANGED local_yahrtzeits
                 ELSE IF NameTest(current_day[u], ln)
                 THEN /\ local_yahrtzeits' =
                           [local_yahrtzeits EXCEPT ![u] =
                              AddEntry(@, <<current_month[u], current_day[u]>>,
                                       NameEntry(default_pref[u], ln))]
                      /\ UNCHANGED <<current_day, current_month, default_pref>>
                 ELSE IF ConnectorTest(ln)
                 THEN \* `continue`
                      UNCHANGED <<current_day, current_month, default_pref,
                                  local_yahrtzeits>>
                 ELSE UNCHANGED <<current_day, current_month, default_pref,
                                  local_yahrtzeits>>

\* the loops over the post's blocks and lines are exhausted; the scan state
\* stays as the post left it until the next post resets it
EndPost(u) ==
  /\ pc[u] = "lines"
  /\ UNCHANGED <<numeral, value>>
  /\ pc' = [pc EXCEPT ![u] = "posts"]
  /\ block' = [block EXCEPT ![u] = 0]
  /\ idx' = [idx EXCEPT ![u] = 0]
  /\ UNCHANGED <<post, nline, line, current_day, current_month,
                 default_pref, local_yahrtzeits, log, results, returned,
                 main_pc, result_i, data, output>>

\* `for post in posts` is exhausted: return local_yahrtzeits
EndPage(u) ==
  /\ pc[u] = "posts"
  /\ UNCHANGED <<numeral, value>>
  /\ Return(u)
  /\ UNCHANGED <<nline, local_yahrtzeits, log, main_pc, result_i, data, output>>

-----------------------------------------------------------------------------
(* main: gather, merge, dedup, write *)

\* an empty result ends the merge with nothing kept
MergeAbortOnEmpty(d, result) ==
  IF result = <<>> THEN <<>>
  ELSE [k \in DOMAIN d \cup DOMAIN result |->
          (IF k \in DOMAIN d THEN d[k] ELSE <<>>) \o
          (IF k \in DOMAIN result THEN result[k] ELSE <<>>)]

\* for key, value in result.items(): data[key].extend(value)
MergeInto(d, result) ==
  [k \in DOMAIN d \cup DOMAIN result |->
     (IF k \in DOMAIN d THEN d[k] ELSE <<>>) \o
     (IF k \in DOMAIN result THEN result[k] ELSE <<>>)]

\* the set `seen` holds the text alone
RECURSIVE OrderedUniqueByText(_, _)
OrderedUniqueByText(list, seen) ==
  IF list = <<>> THEN <<>>
  ELSE LET e == Head(list)
       IN  IF e.text \notin seen
           THEN <<e>> \o OrderedUniqueByText(Tail(list), seen \cup {e.text})
           ELSE OrderedUniqueByText(Tail(list), seen)

\* the dedup loop over one list: the set `seen` holds (text, adar_pref)
RECURSIVE OrderedUniqueFrom(_, _)
OrderedUniqueFrom(list, seen) ==
  IF list = <<>> THEN <<>>
  ELSE LET e   == Head(list)
           tup == <<e.text, e.adar_pref>>
       IN  IF tup \notin seen
           THEN <<e>> \o OrderedUniqueFrom(Tail(list), seen \cup {tup})
           ELSE OrderedUniqueFrom(Tail(list), seen)

OrderedUnique(list) == OrderedUniqueFrom(list, {})

\* str() of an int or of None
RECURSIVE Decimal(_)
Decimal(n) ==
  LET digit == <<"0", "1", "2", "3", "4", "5", "6", "7", "8", "9">>[(n % 10) + 1]
  IN  IF n < 10 THEN <<digit>> ELSE Decimal(n \div 10) \o <<digit>>

Str(n) == IF n = None THEN <<"N", "o", "n", "e">> ELSE Decimal(n)

\* f"{k[0]}_{k[1]}"
FormatKey(k) == Str(k[1]) \o <<"_">> \o Str(k[2])

\* the dict comprehension handed to json.dump
Formatted(d) ==
  [s \in {FormatKey(k) : k \in DOMAIN d} |->
     d[CHOOSE k \in DOMAIN d : FormatKey(k) = s]]

\* `await asyncio.gather(...)` returns once every task is done; data = {}
Gather ==
  /\ main_pc = "gather"
  /\ UNCHANGED <<numeral, value>>
  /\ \A u \in Units : pc[u] = "returned"
  /\ main_pc' = "merge"
  /\ result_i' = 1
  /\ data' = EmptyDict
  /\ UNCHANGED <<pc, post, block, idx, nline, line, current_day, current_month,
                 default_pref, local_yahrtzeits, log, results, returned, output>>

\* one iteration of `for result in results`
MergeResult ==
  /\ main_pc = "merge"
  /\ UNCHANGED <<numeral, value>>
  /\ result_i <= NumUnits
  /\ data' = MergeInto(data, results[result_i])
  /\ result_i' = result_i + 1
  /\ main_pc' = IF result_i = NumUnits THEN "dedup" ELSE "merge"
  /\ UNCHANGED <<pc, post, block, idx, nline, line, current_day, current_month,
                 default_pref, local_yahrtzeits, log, results, returned, output>>

\* `for key in data`: dedup preserving order
Dedup ==
  /\ main_pc = "dedup"
  /\ UNCHANGED <<numeral, value>>
  /\ data' = [k \in DOMAIN data |-> OrderedUnique(data[k])]
  /\ main_pc' = "write"
  /\ UNCHANGED <<pc, post, block, idx, nline, line, current_day, current_month,
                 default_pref, local_yahrtzeits, log, results, returned,
                 result_i, output>>

\* json.dump of the formatted mapping
WriteOutput ==
  /\ main_pc = "write"
  /\ UNCHANGED <<numeral, value>>
  /\ output' = Formatted(data)
  /\ main_pc' = "done"
  /\ UNCHANGED <<pc, post, block, idx, nline, line, current_day, current_month,
                 default_pref, local_yahrtzeits, log, results, returned,
                 result_i, data>>

-----------------------------------------------------------------------------
(* The program *)

Init ==
  /\ pc = [u \in Units |-> "get"]
  /\ post = [u \in Units |-> 0]
  /\ block = [u \in Units |-> 0]
  /\ idx = [u \in Units |-> 0]
  /\ nline = [u \in Units |-> 0]
  /\ line = [u \in Units |-> <<>>]
  /\ current_day = [u \in Units |-> None]
  /\ current_month = [u \in Units |-> None]
  /\ default_pref = [u \in Units |-> None]
  /\ local_yahrtzeits = [u \in Units |-> EmptyDict]
  /\ log = [u \in Units |-> "none"]
  /\ results = [u \in Units |-> EmptyDict]
  /\ returned = <<>>
  /\ main_pc = "gather"
  /\ result_i = 0
  /\ data = EmptyDict
  /\ output = EmptyDict
  /\ numeral = <<>>
  /\ value = None

\* the program over pages made of PageLines
Next ==
  \/ \E u \in Units, st \in StatusCodes : Response(u, st)
  \/ \E u \in Units : FetchError(u)
  \/ \E u \in Units : ReadText(u)
  \/ \E u \in Units, kind \in PostKinds : NextPost(u, kind)
  \/ \E u \in Units : NextBlock(u)
  \/ \E u \in Units, raw \in PageLines : ScanLine(u, raw, MaxLines)
  \/ \E u \in Units : EndPost(u)
  \/ \E u \in Units : EndPage(u)
  \/ Gather
  \/ MergeResult
  \/ Dedup
  \/ WriteOutput

Spec == Init /\ [][Next]_vars

\* the program with every page but the first failed at its fetch, the first
\* page made of RawLines
InitScan ==
  /\ pc = [u \in Units |-> IF u = 1 THEN "get" ELSE "returned"]
  /\ post = [u \in Units |-> 0]
  /\ block = [u \in Units |-> 0]
  /\ idx = [u \in Units |-> 0]
  /\ nline = [u \in Units |-> 0]
  /\ line = [u \in Units |-> <<>>]
  /\ current_day = [u \in Units |-> None]
  /\ current_month = [u \in Units |-> None]
  /\ default_pref = [u \in Units |-> None]
  /\ local_yahrtzeits = [u \in Units |-> EmptyDict]
  /\ log = [u \in Units |-> IF u = 1 THEN "none" ELSE "error"]
  /\ results = [u \in Units |-> EmptyDict]
  /\ returned = [n \in 1..(NumUnits - 1) |-> n + 1]
  /\ main_pc = "gather"
  /\ result_i = 0
  /\ data = EmptyDict
  /\ output = EmptyDict
  /\ numeral = <<>>
  /\ value = None

NextScan ==
  \/ \E u \in Units, st \in StatusCodes : Response(u, st)
  \/ \E u \in Units : FetchError(u)
  \/ \E u \in Units : ReadText(u)
  \/ \E u \in Units, kind \in PostKinds : NextPost(u, kind)
  \/ \E u \in Units : NextBlock(u)
  \/ \E u \in Units, raw \in RawLines : ScanLine(u, raw, MaxScanLines)
  \/ \E u \in Units : EndPost(u)
  \/ \E u \in Units : EndPage(u)
  \/ Gather
  \/ MergeResult
  \/ Dedup
  \/ WriteOutput

SpecScan == InitScan /\ [][NextScan]_vars

\* main from the return of gather on, the units' results drawn from the
\* records an entry can hold: a list under the key (12, 20), or one record
\* under (7, 20), or nothing
AggEntries ==
  { [text |-> Rabi \o SP \o David, adar_pref |-> None],
    [text |-> Rabi \o SP \o David, adar_pref |-> 1],
    [text |-> Rabi \o SP \o Avraham, adar_pref |-> None] }

AggLists == UNION {[1..n -> AggEntries] : n \in 1..MaxAggLen}

AggResults ==
  {<<>>, (<<7, 20>> :> << [text |-> Rabi \o SP \o David, adar_pref |-> None] >>)}
    \cup {(<<12, 20>> :> l) : l \in AggLists}

InitAgg ==
  /\ pc = [u \in Units |-> "returned"]
  /\ post = [u \in Units |-> 0]
  /\ block = [u \in Units |-> 0]
  /\ idx = [u \in Units |-> 0]
  /\ nline = [u \in Units |-> 0]
  /\ line = [u \in Units |-> <<>>]
  /\ current_day = [u \in Units |-> None]
  /\ current_month = [u \in Units |-> None]
  /\ default_pref = [u \in Units |-> None]
  /\ results \in [Units -> AggResults]
  /\ local_yahrtzeits = results
  /\ log = [u \in Units |-> "none"]
  /\ returned = [n \in Units |-> n]
  /\ main_pc = "gather"
  /\ result_i = 0
  /\ data = EmptyDict
  /\ output = EmptyDict
  /\ numeral = <<>>
  /\ value = None

NextAgg ==
  \/ Gather
  \/ MergeResult
  \/ Dedup
  \/ WriteOutput

SpecAgg == InitAgg /\ [][NextAgg]_vars

\* the program over pages of at most MaxFairLines lines
NextFair ==
  \/ \E u \in Units, st \in StatusCodes : Response(u, st)
  \/ \E u \in Units : FetchError(u)
  \/ \E u \in Units : ReadText(u)
  \/ \E u \in Units, kind \in PostKinds : NextPost(u, kind)
  \/ \E u \in Units : NextBlock(u)
  \/ \E u \in Units, raw \in PageLines : ScanLine(u, raw, MaxFairLines)
  \/ \E u \in Units : EndPost(u)
  \/ \E u \in Units : EndPage(u)
  \/ Gather
  \/ MergeResult
  \/ Dedup
  \/ WriteOutput

\* a pending fetch answers, fails or times out (timeout=10 of line 50)
FetchStep(u) ==
  \/ \E st \in StatusCodes : Response(u, st)
  \/ FetchError(u)
  \/ ReadText(u)

\* the loops over the lines of a post and over the posts of a page run out
ScanEnd(u) == EndPost(u) \/ EndPage(u)

\* main goes on when gather has returned
MainStep == Gather \/ MergeResult \/ Dedup \/ WriteOutput

\* the scheduling of the event loop: a coroutine that can run does run
Fairness ==
  /\ \A u \in Units : WF_vars(FetchStep(u)) /\ WF_vars(ScanEnd(u))
  /\ WF_vars(MainStep)

SpecFair == Init /\ [][NextFair]_vars /\ Fairness

\* hebrew_to_int by itself, over the tokens of at most MaxTokenLen characters
\* made of letters of the table, a final letter, which is not in it, and the
\* two quote characters
TokenChars == {"yod", "zayin", "kaf", "nun_f", "apos", "dq"}

Tokens == UNION {[1..n -> TokenChars] : n \in 0..MaxTokenLen}

InitDecode ==
  /\ pc = [u \in Units |-> "returned"]
  /\ post = [u \in Units |-> 0]
  /\ block = [u \in Units |-> 0]
  /\ idx = [u \in Units |-> 0]
  /\ nline = [u \in Units |-> 0]
  /\ line = [u \in Units |-> <<>>]
  /\ current_day = [u \in Units |-> None]
  /\ current_month = [u \in Units |-> None]
  /\ default_pref = [u \in Units |-> None]
  /\ local_yahrtzeits = [u \in Units |-> EmptyDict]
  /\ log = [u \in Units |-> "none"]
  /\ results = [u \in Units |-> EmptyDict]
  /\ returned = [n \in Units |-> n]
  /\ main_pc = "done"
  /\ result_i = 0
  /\ data = EmptyDict
  /\ output = EmptyDict
  /\ numeral \in Tokens
  /\ value = None

\* the call hebrew_to_int(numeral)
Decode ==
  /\ value = None
  /\ value' = hebrew_to_int(numeral)
  /\ UNCHANGED <<pc, post, block, idx, nline, line, current_day, current_month,
                 default_pref, local_yahrtzeits, log, results, returned,
                 main_pc, result_i, data, output, numeral>>

NextDecode == Decode

SpecDecode == InitDecode /\ [][NextDecode]_vars

-----------------------------------------------------------------------------
(* Properties of the Block Scanner, checked under SpecScan *)

\* unit u took one line through the loop body in this step; line'[u] is it
Scanned(u) == nline'[u] = nline[u] + 1

ListAt(d, k) == IF k \in DOMAIN d THEN d[k] ELSE <<>>

Last(list) == list[Len(list)]

\* this step appended exactly one entry to u's list under key k and changed
\* nothing else of u's records
AppendedOne(u, k) ==
  LET old == local_yahrtzeits[u]
      new == local_yahrtzeits'[u]
  IN  /\ DOMAIN new = DOMAIN old \cup {k}
      /\ Len(new[k]) = Len(ListAt(old, k)) + 1
      /\ SubSeq(new[k], 1, Len(ListAt(old, k))) = ListAt(old, k)
      /\ \A j \in DOMAIN old \ {k} : new[j] = old[j]

ScanStateUnchanged(u) ==
  /\ current_day'[u] = current_day[u]
  /\ current_month'[u] = current_month[u]
  /\ default_pref'[u] = default_pref[u]

\* a post of the designated author begins
PostBegins(u) == post'[u] = post[u] + 1 /\ pc'[u] = "lines"

HeaderKafTishrei == <<"kaf">> \o SP \o Tishrei
LineRabiDavid    == Rabi \o SP \o <<"dalet", "qamats", "vav", "dalet">>
TextRabiDavid    == Rabi \o SP \o David
LineRabiAvraham  == Rabi \o SP \o Avraham

\* C1: the header "כ תשרי" sets the date (7, 20) with no Adar preference, and
\* with a nonzero day in force a line that begins with 'רבי ' appends exactly
\* one record, under the key (current_month, current_day), whose adar_pref is
\* the default_pref in force, which is None when the month is not 12.
C1_PrimaryPrefixLineEmits ==
  [][\A u \in Units : Scanned(u) =>
       /\ line'[u] = HeaderKafTishrei =>
            /\ current_day'[u] = 20
            /\ current_month'[u] = 7
            /\ default_pref'[u] = None
       /\ (StartsWith(line'[u], Rabi \o SP) /\ current_day[u] \notin {None, 0}) =>
            LET k == <<current_month[u], current_day[u]>>
            IN  /\ AppendedOne(u, k)
                /\ Last(local_yahrtzeits'[u][k]).adar_pref = default_pref[u]
                /\ current_month[u] # 12 =>
                     Last(local_yahrtzeits'[u][k]).adar_pref = None]_vars

\* the block ["כ תשרי", "רבי דָוד"] has been scanned: one record at (7, 20), the
\* text without its point, no Adar preference
C1_Witness ==
  \E u \in Units :
    /\ nline[u] = 2
    /\ line[u] = LineRabiDavid
    /\ local_yahrtzeits[u] =
         (<<7, 20>> :> << [text |-> TextRabiDavid, adar_pref |-> None] >>)

\* C2: the scan state belongs to the post: moving to the next block of a post
\* leaves it, a record is filed under the date it holds, the start of a post
\* sets its three fields to None, and a first line of a post that is no header
\* finds no day and emits nothing.
C2_ScanStatePerPost ==
  [][\A u \in Units :
       /\ (pc[u] = "lines" /\ pc'[u] = "lines" /\ block'[u] # block[u]) =>
            ScanStateUnchanged(u)
       /\ (Scanned(u) /\ local_yahrtzeits'[u] # local_yahrtzeits[u]) =>
            AppendedOne(u, <<current_month[u], current_day[u]>>)
       /\ PostBegins(u) =>
            /\ current_day'[u] = None
            /\ current_month'[u] = None
            /\ default_pref'[u] = None
       /\ (Scanned(u) /\ block[u] = 1 /\ idx[u] = 0 /\ ~HeaderTest(line'[u])) =>
            /\ current_day'[u] = None
            /\ local_yahrtzeits'[u] = local_yahrtzeits[u]]_vars

\* the first post held "כ תשרי" and "רבי דָוד" and so ended with a date in force;
\* the second post begins with "רבי אברהם", which emitted nothing
C2_Witness ==
  \E u \in Units :
    /\ post[u] = 2 /\ block[u] = 1 /\ idx[u] = 1 /\ nline[u] = 3
    /\ line[u] = LineRabiAvraham
    /\ current_day[u] = None
    /\ local_yahrtzeits[u] =
         (<<7, 20>> :> << [text |-> TextRabiDavid, adar_pref |-> None] >>)

\* C3: records change only by a scanned line while current_day is neither None
\* nor 0; current_day is None when a post begins and only a header line
\* changes it, so nothing is emitted before the first header nor after a
\* header whose day is 0 until another header.
C3_EmitOnlyWithDay ==
  [][\A u \in Units :
       /\ local_yahrtzeits'[u] # local_yahrtzeits[u] =>
            Scanned(u) /\ current_day[u] \notin {None, 0}
       /\ PostBegins(u) => current_day'[u] = None
       /\ (Scanned(u) /\ ~HeaderTest(line'[u])) =>
            current_day'[u] = current_day[u]]_vars

\* the header "' כ תשרי" gave day 0, and the name line after it emitted nothing
C3_Witness ==
  \E u \in Units :
    /\ nline[u] = 2
    /\ current_day[u] = 0 /\ current_month[u] = 7
    /\ line[u] = LineRabiDavid
    /\ local_yahrtzeits[u] = EmptyDict

\* the lines "כ' אדר א'" and "י"ז אדר ב'" as line 74 leaves them
HeaderKafAdarAlef == <<"kaf">> \o SP \o Adar \o SP \o <<"alef">>
HeaderYodZayinAdarBet == <<"yod", "dq", "zayin">> \o SP \o Adar \o SP \o <<"bet">>

\* C4: a header written with the first-half alias sets month 12 and
\* default_pref 1, one written with the second-half alias month 12 and
\* default_pref 2, and a record appended under a header carries the header's
\* default_pref.
C4_AdarHalvesFromHeader ==
  [][\A u \in Units : Scanned(u) =>
       /\ line'[u] = HeaderKafAdarAlef =>
            current_month'[u] = 12 /\ default_pref'[u] = 1
       /\ line'[u] = HeaderYodZayinAdarBet =>
            current_month'[u] = 12 /\ default_pref'[u] = 2
       /\ local_yahrtzeits'[u] # local_yahrtzeits[u] =>
            LET k == <<current_month[u], current_day[u]>>
            IN  Last(local_yahrtzeits'[u][k]).adar_pref = default_pref[u]]_vars

\* C5: with a date in force, a line that carries the marker '(ב)' appends one
\* record with adar_pref 2, a line that carries '(א)' one with adar_pref 1;
\* the record's text is without the marker and default_pref stays as it was.
C5_MarkerOverridesDefault ==
  [][\A u \in Units :
       (Scanned(u) /\ current_day[u] \notin {None, 0}
          /\ (Contains(line'[u], MarkAlef) \/ Contains(line'[u], MarkBet))) =>
         LET k == <<current_month[u], current_day[u]>>
         IN  /\ AppendedOne(u, k)
             /\ Last(local_yahrtzeits'[u][k]).adar_pref =
                  (IF Contains(line'[u], MarkAlef) THEN 1 ELSE 2)
             /\ ~Contains(Last(local_yahrtzeits'[u][k]).text, MarkAlef)
             /\ ~Contains(Last(local_yahrtzeits'[u][k]).text, MarkBet)
             /\ default_pref'[u] = default_pref[u]]_vars

\* C6: every record is filed under a day in 1..30.
C6_DayInRange ==
  \A u \in Units : \A k \in DOMAIN local_yahrtzeits[u] : k[2] \in 1..30

\* C7: every record is filed under a month in 1..12, in the units' records and
\* in the index; a day is in force only with a month in 1..12, and
\* current_month is never 13.
C7_MonthInRange ==
  /\ \A u \in Units :
       /\ \A k \in DOMAIN local_yahrtzeits[u] : k[1] \in 1..12
       /\ current_day[u] \notin {None, 0} => current_month[u] \in 1..12
       /\ current_month[u] # 13
  /\ \A k \in DOMAIN data : k[1] \in 1..12

\* a record was filed under the header "י"ז אדר ב'": month 12, day 17
C7_Witness ==
  \E u \in Units :
    /\ <<12, 17>> \in DOMAIN local_yahrtzeits[u]
    /\ current_month[u] = 12 /\ current_day[u] = 17

-----------------------------------------------------------------------------
(* Properties of the aggregation *)

Pair(e) == <<e.text, e.adar_pref>>

Elems(list) == {list[n] : n \in 1..Len(list)}

FirstIndex(list, e) ==
  CHOOSE n \in 1..Len(list) : list[n] = e /\ \A m \in 1..(n - 1) : list[m] # e

\* list d holds each record of list m once, in the order of first occurrence
FirstOccurrences(d, m) ==
  /\ \A a, b \in 1..Len(d) : a # b => Pair(d[a]) # Pair(d[b])
  /\ Elems(d) = Elems(m)
  /\ \A a, b \in 1..Len(d) : a < b => FirstIndex(m, d[a]) < FirstIndex(m, d[b])

\* the lists the units hold under key k, joined in the order of the pages
RECURSIVE JoinedUpTo(_, _, _)
JoinedUpTo(f, k, n) ==
  IF n = 0 THEN <<>> ELSE JoinedUpTo(f, k, n - 1) \o ListAt(f[n], k)

Joined(f, k) == JoinedUpTo(f, k, NumUnits)

\* C8: once the dedup loop has run, the index has the keys of the merged
\* results and under each key holds every record of the merged list exactly
\* once, in the order of first occurrence; records of one text and different
\* adar_pref are different records and are all kept.
C8_DedupKeepsFirst ==
  main_pc \in {"write", "done"} =>
    /\ DOMAIN data = UNION {DOMAIN results[u] : u \in Units}
    /\ \A k \in DOMAIN data : FirstOccurrences(data[k], Joined(results, k))

\* the merged list of a key held an exact repeat and two records of one text
\* with different adar_pref; the repeat is gone and both of the two are kept
C8_Witness ==
  /\ main_pc = "done"
  /\ \E k \in DOMAIN data :
       /\ Len(data[k]) < Len(Joined(results, k))
       /\ \E a, b \in 1..Len(data[k]) :
            /\ data[k][a].text = data[k][b].text
            /\ data[k][a].adar_pref # data[k][b].adar_pref

\* C9: a step changes the records of one unit at most, and only by a line
\* that unit scans; a unit's result is its own record list, stored when it
\* returns; the merge starts only when every unit has returned; the merged
\* index holds under each key the units' lists joined in the order of the
\* pages, and the final index their first occurrences in that order,
\* whatever the order in which the units returned.
C9_IndexIndependentOfOrder ==
  [][/\ \A u \in Units :
          /\ local_yahrtzeits'[u] # local_yahrtzeits[u] =>
               /\ Scanned(u)
               /\ \A v \in Units \ {u} : local_yahrtzeits'[v] = local_yahrtzeits[v]
          /\ results'[u] # results[u] =>
               /\ pc[u] # "returned" /\ pc'[u] = "returned"
               /\ results'[u] = local_yahrtzeits[u]
               /\ \A v \in Units \ {u} : results'[v] = results[v]
     /\ main_pc' # "gather" => \A u \in Units : pc'[u] = "returned"
     /\ main_pc' \in {"dedup", "write", "done"} =>
          DOMAIN data' = UNION {DOMAIN local_yahrtzeits'[u] : u \in Units}
     /\ main_pc' = "dedup" =>
          \A k \in DOMAIN data' : data'[k] = Joined(local_yahrtzeits', k)
     /\ main_pc' \in {"write", "done"} =>
          \A k \in DOMAIN data' :
            FirstOccurrences(data'[k], Joined(local_yahrtzeits', k))]_vars

\* the second page returned before the first, both filed different records
\* under one key, and the index holds the first page's before the second's
C9_Witness ==
  /\ main_pc = "done"
  /\ returned = <<2, 1>>
  /\ \E k \in DOMAIN data :
       /\ k \in DOMAIN local_yahrtzeits[1] /\ k \in DOMAIN local_yahrtzeits[2]
       /\ Elems(local_yahrtzeits[1][k]) \cap Elems(local_yahrtzeits[2][k]) = {}
       /\ data[k] = local_yahrtzeits[1][k] \o local_yahrtzeits[2][k]

\* C10: a unit that returns from an await of the fetch, or by an exception
\* before it scanned a line, returns no records and logs the failure; a step
\* of one unit leaves the results of the others; and the final index holds,
\* under its key, every record of every unit's result.
C10_FailedFetchIsolated ==
  [][/\ \A u \in Units :
          /\ (pc[u] \in {"get", "text"} /\ pc'[u] = "returned") =>
               /\ results'[u] = <<>>
               /\ log'[u] \in {"warning", "error"}
          /\ (pc[u] # "returned" /\ pc'[u] = "returned" /\ nline[u] = 0) =>
               results'[u] = <<>>
          /\ pc'[u] # pc[u] =>
               \A v \in Units \ {u} :
                 /\ results'[v] = results[v]
                 /\ local_yahrtzeits'[v] = local_yahrtzeits[v]
     /\ main_pc' = "done" =>
          \A v \in Units : \A k \in DOMAIN results'[v] :
            /\ k \in DOMAIN data'
            /\ Elems(results'[v][k]) \subseteq Elems(data'[k])]_vars

\* one page failed at its fetch, another filed a record, and the index is
\* written with that record
C10_Witness ==
  /\ main_pc = "done"
  /\ \E u, v \in Units :
       /\ log[u] \in {"warning", "error"} /\ nline[u] = 0 /\ results[u] = <<>>
       /\ results[v] # <<>>
       /\ data = results[v]

-----------------------------------------------------------------------------
(* Failure and termination of the run, checked under SpecFair *)

\* C11: a unit that raises after it has begun to scan returns exactly the
\* records it holds at that point, and when the run is done every one of
\* them is in the aggregate under its key.
C11_PartialRecordsKept ==
  [][\A u \in Units :
       /\ (pc[u] = "posts" /\ pc'[u] = "returned" /\ log'[u] = "error")
            => results'[u] = local_yahrtzeits[u]
       /\ (main_pc' = "done" /\ log'[u] = "error")
            => \A k \in DOMAIN local_yahrtzeits'[u] :
                 /\ k \in DOMAIN data'
                 /\ Elems(local_yahrtzeits'[u][k]) \subseteq Elems(data'[k])]_vars

\* a unit read the header and a name line, then raised, and the run is done
\* with its record in the aggregate
C11_Witness ==
  /\ main_pc = "done"
  /\ \E u \in Units :
       /\ log[u] = "error"
       /\ nline[u] >= 2
       /\ <<7, 20>> \in DOMAIN results[u]
       /\ <<7, 20>> \in DOMAIN data
       /\ Elems(results[u][<<7, 20>>]) \subseteq Elems(data[<<7, 20>>])
       /\ results[u][<<7, 20>>] # <<>>

\* C12: whatever the units do (success, bad status, exception), the run
\* eventually reaches the output step and writes a mapping; the mapping is
\* empty exactly when every unit returned no record, in particular when
\* every fetch failed.
C12_RunReachesOutput ==
  /\ <>(main_pc = "done")
  /\ [](main_pc = "done" =>
          /\ ((\A u \in Units : log[u] # "none" /\ nline[u] = 0)
                => output = EmptyDict)
          /\ (output = EmptyDict <=> \A u \in Units : results[u] = EmptyDict))

\* one fetch answered with a bad status, the other raised, and the run is
\* done with an empty mapping
C12_Witness ==
  /\ main_pc = "done"
  /\ log[1] = "warning"
  /\ \A u \in Units \ {1} : log[u] = "error"
  /\ \A u \in Units : nline[u] = 0 /\ post[u] = 0 /\ results[u] = EmptyDict
  /\ output = EmptyDict

-----------------------------------------------------------------------------
(* The Numeral Decoder, checked under SpecDecode *)

\* the table values of the characters of s that are in the table, added up
\* position by position
TableSum(s) ==
  LET RECURSIVE UpTo(_)
      UpTo(n) == IF n = 0 THEN 0
                 ELSE UpTo(n - 1) + (IF s[n] \in DOMAIN letters
                                     THEN letters[s[n]] ELSE 0)
  IN  UpTo(Len(s))

IsQuote(c) == c \in {"apos", "dq"}

WithoutQuotes(s) == SelectSeq(s, LAMBDA c : ~IsQuote(c))

\* C13: hebrew_to_int returns the sum of the table values of the token's
\* characters, a character outside the table counting 0: 0 for the empty
\* token, 20 for "כ", 17 for yod and zayin with punctuation between them.
\* The result is that of the token with every apostrophe and double quote
\* taken out, so inserting or removing such characters does not change it.
C13_DecoderSumsTable ==
  value # None =>
    /\ value = TableSum(numeral)
    /\ value = TableSum(WithoutQuotes(numeral))
    /\ (numeral = <<>> => value = 0)
    /\ (numeral = <<"kaf">> => value = 20)
    /\ (WithoutQuotes(numeral) = <<"yod", "zayin">> => value = 17)
    /\ (numeral = <<"nun_f">> => value = 0)

\* the token yod, double quote, zayin has been decoded as 17
C13_Witness ==
  /\ numeral = <<"yod", "dq", "zayin">>
  /\ value = 17

-----------------------------------------------------------------------------
(* Line classification, checked under SpecScan *)

HasNamePrefix(ln) == \E p \in NamePrefixes : StartsWith(ln, p)

\* C14: within a post current_day, current_month and default_pref change
\* only at a line that passes the header test (otherwise only where a post
\* begins or the unit returns); name, connector and noise lines leave all
\* three as they are, and connector lines ('ובנו', 'וחתנו') and noise lines
\* append no record.
C14_OnlyHeadersMoveDate ==
  [][\A u \in Units :
       /\ ~ScanStateUnchanged(u)
            => \/ Scanned(u) /\ HeaderTest(line'[u])
               \/ PostBegins(u)
               \/ pc'[u] = "returned"
       /\ (Scanned(u) /\ line'[u] \in {UVno, VeChatno})
            => /\ ScanStateUnchanged(u)
               /\ local_yahrtzeits'[u] = local_yahrtzeits[u]
       /\ (Scanned(u) /\ ~HeaderTest(line'[u]) /\ ~HasNamePrefix(line'[u]))
            => /\ ScanStateUnchanged(u)
               /\ local_yahrtzeits'[u] = local_yahrtzeits[u]]_vars

\* after the header "כ תשרי" and one name line the connector 'ובנו' has been
\* read: the date (7, 20) is still in force and the record is still alone
C14_Witness ==
  \E u \in Units :
    /\ line[u] = UVno
    /\ nline[u] = 3
    /\ current_day[u] = 20
    /\ current_month[u] = 7
    /\ DOMAIN local_yahrtzeits[u] = {<<7, 20>>}
    /\ Len(local_yahrtzeits[u][<<7, 20>>]) = 1

\* C15: a line that begins with 'רבי ' is never taken as a header, whatever
\* numeral letters and month aliases it holds: it leaves current_day,
\* current_month and default_pref as they are, appends exactly one record
\* under the date in force when there is one, and nothing otherwise.
C15_PrimaryPrefixNeverHeader ==
  [][\A u \in Units :
       (Scanned(u) /\ StartsWith(line'[u], Rabi \o SP))
         => /\ ScanStateUnchanged(u)
            /\ IF current_day[u] \notin {None, 0}
               THEN AppendedOne(u, <<current_month[u], current_day[u]>>)
               ELSE local_yahrtzeits'[u] = local_yahrtzeits[u]]_vars

\* "רבי אברהם", which holds the numeral letter bet and the alias "אב", was
\* read under the date (7, 20) and is recorded there; the date is unchanged
C15_Witness ==
  \E u \in Units :
    /\ line[u] = LineRabiAvraham
    /\ nline[u] = 2
    /\ current_day[u] = 20
    /\ current_month[u] = 7
    /\ <<7, 20>> \in DOMAIN local_yahrtzeits[u]
    /\ Len(local_yahrtzeits[u][<<7, 20>>]) = 1
    /\ local_yahrtzeits[u][<<7, 20>>][1].text = LineRabiAvraham

-----------------------------------------------------------------------------
(* The header branch, checked under SpecScan *)

HeaderShevatAvraham == <<"tet">> \o SP \o Shevat \o SP \o Avraham

\* the aliases of the table that occur in the line
AliasesIn(ln) == {i \in DOMAIN month_map : Contains(ln, month_map[i].name)}

\* C16: on a header line current_month becomes the canonical month (13
\* stored as 12) of an alias that occurs in the line and is at least as long
\* as every alias that occurs in it; in "ט שבט אברהם" the alias "אב" inside
\* the name does not decide against the longer "שבט".
C16_LongestAliasWins ==
  [][\A u \in Units :
       (Scanned(u) /\ HeaderTest(line'[u]))
         => /\ \E i \in AliasesIn(line'[u]) :
                 /\ \A j \in AliasesIn(line'[u]) :
                      Len(month_map[j].name) <= Len(month_map[i].name)
                 /\ current_month'[u] =
                      IF month_map[i].num = 13 THEN 12 ELSE month_map[i].num
            /\ (line'[u] = HeaderShevatAvraham => current_month'[u] = 11)]_vars

\* the header "ט שבט אברהם", in which both "אב" (5) and "שבט" (11) occur,
\* has set the date (11, 9)
C16_Witness ==
  \E u \in Units :
    /\ line[u] = HeaderShevatAvraham
    /\ current_month[u] = 11
    /\ current_day[u] = 9

\* C17: default_pref is other than None only while current_month is 12; a
\* header that resolves to another month, and a header in which neither
\* alias of a half of Adar occurs (so that it resolves through the bare
\* alias), leave default_pref None, and a record appended under a month
\* other than 12 has adar_pref None.
C17_PrefOnlyInAdar ==
  [][\A u \in Units :
       /\ default_pref'[u] # None => current_month'[u] = 12
       /\ (/\ Scanned(u)
           /\ HeaderTest(line'[u])
           /\ \/ current_month'[u] # 12
              \/ ~Contains(line'[u], AdarAlef) /\ ~Contains(line'[u], AdarBet))
            => default_pref'[u] = None
       /\ (/\ Scanned(u)
           /\ local_yahrtzeits'[u] # local_yahrtzeits[u]
           /\ current_month[u] # 12)
            => Last(local_yahrtzeits'[u][<<current_month[u], current_day[u]>>]).adar_pref
                 = None]_vars

\* a header of Adar resolved through the bare alias: month 12, no preference
C17_Witness ==
  \E u \in Units :
    /\ line[u] = HeaderKafAdarAlef
    /\ current_month[u] = 12
    /\ current_day[u] = 20
    /\ default_pref[u] = None

\* the leading characters of s that are not whitespace
RECURSIVE FirstRun(_)
FirstRun(s) ==
  IF s = <<>> \/ Head(s) \in Whitespace THEN <<>>
  ELSE <<Head(s)>> \o FirstRun(Tail(s))

\* the first maximal run of non-whitespace characters of ln
FirstToken(ln) == FirstRun(LStrip(ln))

\* C18: on every header line current_day becomes the Numeral Decoder's value
\* of the first whitespace-delimited token of the line as it is after the
\* stripping of backslashes and apostrophes, also when that line begins with
\* a space or when the token is followed by a tab.
C18_DayFromFirstToken ==
  [][\A u \in Units :
       (Scanned(u) /\ HeaderTest(line'[u]))
         => current_day'[u] = hebrew_to_int(FirstToken(line'[u]))]_vars

-----------------------------------------------------------------------------
(* The name branch, checked under SpecScan *)

\* ln without a doubled question mark at its very beginning
AfterLeadingQQ(ln) == IF StartsWith(ln, QQ) THEN SubSeq(ln, 3, Len(ln)) ELSE ln

\* C19: on a name line only a leading '??' is removed: when '??' occurs in
\* the line after its beginning, the text of the record appended for the
\* line still holds it.
C19_OnlyLeadingQQRemoved ==
  [][\A u \in Units :
       (/\ Scanned(u)
        /\ local_yahrtzeits'[u] # local_yahrtzeits[u]
        /\ Contains(AfterLeadingQQ(line'[u]), QQ))
         => Contains(Last(local_yahrtzeits'[u][<<current_month[u],
                                                current_day[u]>>]).text, QQ)]_vars

\* C20: while a nonzero day is in force, a line that begins with any of the
\* eight name prefixes appends exactly one record under the date in force
\* and leaves current_day and current_month as they are: no such line is
\* read as a header.
C20_PrefixedLineNeverHeader ==
  [][\A u \in Units :
       (/\ Scanned(u)
        /\ current_day[u] \notin {None, 0}
        /\ HasNamePrefix(line'[u]))
         => /\ AppendedOne(u, <<current_month[u], current_day[u]>>)
            /\ current_day'[u] = current_day[u]
            /\ current_month'[u] = current_month[u]]_vars

====
